---- MODULE Spec2Model ----
(***************************************************************************)
(* Model of crust's compat::ConnectionMap (src/compat/connection_map.rs)   *)
(* and of net::peer::Peer (src/net/peer/mod.rs).                           *)
(*                                                                         *)
(* A connection instance c is a Peer over a Socket.  insert_peer stores    *)
(* its outbound half in the map and spawns handle_peer_rx over its inbound *)
(* half.  Every method of ConnectionMap runs under the one Mutex of Inner, *)
(* so each is one atomic action; the part of insert_peer that runs before  *)
(* the lock is taken is an action of its own.                              *)
(***************************************************************************)
EXTENDS Integers, Sequences, FiniteSets, TLC

\* ---- bounds of the model -------------------------------------------------
NumIds == 2          \* identities (PublicEncryptKey values)
MaxConn == 2         \* connection instances ever constructed
MaxLive == 1         \* connection instances of the specification that has frames and time
MaxFrames == 2       \* frames a remote peer puts on one socket
MaxSink == 1         \* payloads queued on one outbound half
MaxTicks == 2        \* advances of the clock
SockCap == 1         \* frames a socket holds for transmission before it is not ready
NumCi == 2           \* connection ids of the ci-channel table
MaxChan == 3         \* ci-channels ever made

\* ---- program constants ---------------------------------------------------
INACTIVITY_TIMEOUT_MS == 120000
HEARTBEAT_PERIOD_MS == 20000

Ids == 1 .. NumIds
Conns == 1 .. MaxConn
Ips == {1, 2}
Kinds == {"Node", "Client"}
Payloads == {"data1", "data2"}
Priorities == {1}
SocketErrors == {"SocketError::Io", "SocketError::Destroyed", "SocketError::Deserialisation"}
TickSteps == {HEARTBEAT_PERIOD_MS, INACTIVITY_TIMEOUT_MS}
NoEntry == [conn |-> 0]
CiIds == 1 .. NumCi
Chans == 1 .. MaxChan
NoChan == 0

VARIABLES
    now,        \* Instant::now()
    ticks,      \* number of clock advances so far
    conn,       \* conn[c]: identity, kind, address and drop-notifier owner of instance c
    map,        \* Inner.map: identity -> PeerWrapper or NoEntry
    peer,       \* peer[c]: the timers of Peer c
    socket,     \* socket[c]: inbound frames of Socket c and the frames it accepted
    task,       \* task[c]: position of the handle_peer_rx future of c
    events,     \* events[c]: what the future of c passed to event_tx.send, in order
    event_rx,   \* TRUE while the receiving end of the event channel exists
    ret,        \* the last call and what it returned
    ci_channel, \* Inner.ci_channel: connection id -> channel or NoChan
    handed,     \* handed[ch]: -1 until channel ch is made, then how often get_ci_channel returned it
    polled      \* polled[c]: what a direct consumer of Peer c has seen of its stream

vars == <<now, ticks, conn, map, peer, socket, task, events, event_rx, ret, ci_channel, handed, polled>>
\* what the registry's identity map and its futures never touch
aux == <<ci_channel, handed, polled>>

\* ---- PeerMessage ---------------------------------------------------------
Heartbeat == [tag |-> "Heartbeat"]
Data(d) == [tag |-> "Data", data |-> d]
PeerMessage == {Heartbeat} \cup {Data(d) : d \in Payloads}
\* what Socket::poll has in store: frames, then possibly end-of-stream or an error
Eof == [tag |-> "Eof"]
SockErr(e) == [tag |-> "Err", err |-> e]

\* ---- Event ---------------------------------------------------------------
NewMessage(uid, kind, vec) == [ev |-> "NewMessage", uid |-> uid, kind |-> kind, data |-> vec]
LostPeer(uid) == [ev |-> "LostPeer", uid |-> uid]

\* event_tx.send(e): the result is ignored by every caller; the event reaches
\* the receiver only while the receiver exists
event_tx_send(c, e) == [events EXCEPT ![c] = Append(@, [e |-> e, ok |-> event_rx])]

\* ---- Socket (external: modelled at its Stream/Sink interface) ------------
\* rx: what Socket::poll has in store; tx: frames accepted for sending;
\* wire: every frame the remote peer has sent so far
NewSocket == [rx |-> <<>>, tx |-> <<>>, wire |-> <<>>]
\* Socket::start_send: Ready while the outbound queue has room, else NotReady
socket_start_send(tx, item) ==
    IF Len(tx) < SockCap THEN [tx |-> Append(tx, item), res |-> "Ready"]
    ELSE [tx |-> tx, res |-> "NotReady"]

\* ---- Peer ----------------------------------------------------------------
\* mutant: a destroyed socket reported as an Io failure
PeerError_from_io(e) ==
    CASE e = "SocketError::Io" -> "Io"
      [] e = "SocketError::Destroyed" -> "Io"
      [] e = "SocketError::Deserialisation" -> "Deserialisation"

\* impl From<SocketError> for PeerError
PeerError_from(e) ==
    CASE e = "SocketError::Io" -> "Io"
      [] e = "SocketError::Destroyed" -> "Destroyed"
      [] e = "SocketError::Deserialisation" -> "Deserialisation"

\* mutant: the heartbeat period for the inactivity period
from_handshaken_socket_short(t) ==
    [last_send_time |-> t,
     send_heartbeat_timeout |-> t + HEARTBEAT_PERIOD_MS,
     recv_heartbeat_timeout |-> t + HEARTBEAT_PERIOD_MS]

from_handshaken_socket(t) ==
    [last_send_time |-> t,
     send_heartbeat_timeout |-> t + HEARTBEAT_PERIOD_MS,
     recv_heartbeat_timeout |-> t + INACTIVITY_TIMEOUT_MS]

\* mutant: the deadline itself does not count as elapsed
elapsed_late(deadline, t) == deadline < t

\* Timeout::poll is Ready once its deadline has been reached
elapsed(deadline, t) == deadline <= t

\* mutant: the timer is reset relative to now
RECURSIVE send_heartbeats_from_now(_, _, _)
send_heartbeats_from_now(p, tx, t) ==
    IF ~elapsed(p.send_heartbeat_timeout, t) THEN [peer |-> p, tx |-> tx]
    ELSE LET p1 == [p EXCEPT !.send_heartbeat_timeout = t + HEARTBEAT_PERIOD_MS]
         IN  IF t - p.last_send_time >= HEARTBEAT_PERIOD_MS
             THEN send_heartbeats_from_now([p1 EXCEPT !.last_send_time = t],
                                           socket_start_send(tx, <<0, Heartbeat>>).tx, t)
             ELSE send_heartbeats_from_now(p1, tx, t)

\* Peer::poll, first loop: drain the send-heartbeat timer
RECURSIVE send_heartbeats(_, _, _)
send_heartbeats(p, tx, t) ==
    IF ~elapsed(p.send_heartbeat_timeout, t) THEN [peer |-> p, tx |-> tx]
    ELSE LET p1 == [p EXCEPT !.send_heartbeat_timeout = p.last_send_time + HEARTBEAT_PERIOD_MS]
         IN  IF t - p.last_send_time >= HEARTBEAT_PERIOD_MS
             THEN send_heartbeats([p1 EXCEPT !.last_send_time = t],
                                  socket_start_send(tx, <<0, Heartbeat>>).tx, t)
             ELSE send_heartbeats(p1, tx, t)

\* mutant: only a Data frame resets the inactivity deadline
RECURSIVE recv_frames_data_only(_, _, _)
recv_frames_data_only(p, rx, t) ==
    IF rx = <<>> THEN [peer |-> p, rx |-> rx, res |-> [tag |-> "NotReady"]]
    ELSE LET msg == Head(rx) IN
         IF msg.tag = "Err" THEN [peer |-> p, rx |-> Tail(rx),
                                 res |-> [tag |-> "Err", err |-> PeerError_from(msg.err)]]
         ELSE IF msg.tag = "Eof" THEN [peer |-> p, rx |-> rx, res |-> [tag |-> "End"]]
         ELSE IF msg.tag = "Data"
              THEN [peer |-> [p EXCEPT !.recv_heartbeat_timeout = t + INACTIVITY_TIMEOUT_MS],
                    rx |-> Tail(rx), res |-> [tag |-> "Item", data |-> msg.data]]
              ELSE recv_frames_data_only(p, Tail(rx), t)

\* mutant: a Data frame is yielded and left in the socket
RECURSIVE recv_frames_dup(_, _, _)
recv_frames_dup(p, rx, t) ==
    IF rx = <<>> THEN [peer |-> p, rx |-> rx, res |-> [tag |-> "NotReady"]]
    ELSE LET msg == Head(rx) IN
         IF msg.tag = "Err" THEN [peer |-> p, rx |-> Tail(rx),
                                 res |-> [tag |-> "Err", err |-> PeerError_from(msg.err)]]
         ELSE IF msg.tag = "Eof" THEN [peer |-> p, rx |-> rx, res |-> [tag |-> "End"]]
         ELSE LET p1 == [p EXCEPT !.recv_heartbeat_timeout = t + INACTIVITY_TIMEOUT_MS] IN
              IF msg.tag = "Data"
              THEN [peer |-> p1, rx |-> rx, res |-> [tag |-> "Item", data |-> msg.data]]
              ELSE recv_frames_dup(p1, Tail(rx), t)

\* Peer::poll, second loop: take frames from the socket until one is Data
RECURSIVE recv_frames(_, _, _)
recv_frames(p, rx, t) ==
    IF rx = <<>> THEN [peer |-> p, rx |-> rx, res |-> [tag |-> "NotReady"]]
    ELSE LET msg == Head(rx) IN
         IF msg.tag = "Err" THEN [peer |-> p, rx |-> Tail(rx),
                                 res |-> [tag |-> "Err", err |-> PeerError_from(msg.err)]]
         ELSE IF msg.tag = "Eof" THEN [peer |-> p, rx |-> rx, res |-> [tag |-> "End"]]
         ELSE LET p1 == [p EXCEPT !.recv_heartbeat_timeout = t + INACTIVITY_TIMEOUT_MS] IN
              IF msg.tag = "Data"
              THEN [peer |-> p1, rx |-> Tail(rx), res |-> [tag |-> "Item", data |-> msg.data]]
              ELSE recv_frames(p1, Tail(rx), t)

\* Peer::poll as a whole: new Peer state, new Socket state, and the result
poll(p, s, t) ==
    LET hb == send_heartbeats(p, s.tx, t)
        rf == recv_frames(hb.peer, s.rx, t)
        s1 == [s EXCEPT !.tx = hb.tx, !.rx = rf.rx]
    IN  IF rf.res.tag = "NotReady" /\ elapsed(rf.peer.recv_heartbeat_timeout, t)
        THEN [peer |-> rf.peer, socket |-> s1, res |-> [tag |-> "Err", err |-> "InactivityTimeout"]]
        ELSE [peer |-> rf.peer, socket |-> s1, res |-> rf.res]

\* Peer::start_send; fail is the failure of the socket, if it fails
start_send(p, tx, priority, data, fail, t) ==
    IF fail # "none"
    THEN [peer |-> p, tx |-> tx, res |-> [tag |-> "Err", err |-> PeerError_from(fail)]]
    ELSE LET r == socket_start_send(tx, <<priority, Data(data)>>) IN
         IF r.res = "Ready"
         THEN [peer |-> [p EXCEPT !.last_send_time = t], tx |-> r.tx, res |-> [tag |-> "Ready"]]
         ELSE [peer |-> p, tx |-> r.tx,
               res |-> [tag |-> "NotReady", item |-> <<priority, data>>]]

\* Peer::poll_complete
poll_complete(tx, fail) ==
    IF fail # "none" THEN [tag |-> "Err", err |-> PeerError_from(fail)]
    ELSE IF tx = <<>> THEN [tag |-> "Ready"] ELSE [tag |-> "NotReady"]

\* ---- ConnectionMap: helpers ----------------------------------------------
NoConn == [uid |-> 0, kind |-> "Node", addr |-> 0, drop_tx |-> "unborn", born |-> 0]
NoTask == [pc |-> "none", cause |-> "none"]
NoPeer == from_handshaken_socket(0)
\* nothing yielded, no failure, no end, no frame taken
NoPolls == [items |-> <<>>, timed_out |-> FALSE, ended |-> FALSE, last_frame |-> -1]

contains_key(m, uid) == m[uid] # NoEntry

\* mutant: the entry stays
map_remove_nothing(m, uid) == m

\* HashMap::remove
map_remove(m, uid) == [m EXCEPT ![uid] = NoEntry]

\* the instances whose PeerWrapper is in m
wrapped(m) == {m[i].conn : i \in {j \in Ids : contains_key(m, j)}}

\* mutant: the notifier of a removed entry is kept alive
drop_wrappers_leak(cn, m1, m2) == cn

\* dropping a PeerWrapper drops its _drop_tx, which fires the DropNotice
drop_wrappers(cn, m1, m2) ==
    [c \in Conns |-> IF c \in wrapped(m1) \ wrapped(m2)
                     THEN [cn[c] EXCEPT !.drop_tx = "dropped"] ELSE cn[c]]

\* mutant: the allow-sets are taken the other way round
whitelisted_swapped(pw, client_ips, node_ips) ==
    IF pw.kind = "Node" THEN pw.addr \in client_ips ELSE pw.addr \in node_ips

\* the retain predicate of whitelist_filter
whitelisted(pw, client_ips, node_ips) ==
    IF pw.kind = "Node" THEN pw.addr \in node_ips ELSE pw.addr \in client_ips

\* a call returns: seq tells one call from the next
returned(op, arg, val) == [op |-> op, arg |-> arg, val |-> val, seq |-> 1 - ret.seq]

\* ---- initial state: ConnectionMap::new ------------------------------------
Init ==
    /\ now = 0
    /\ ticks = 0
    /\ conn = [c \in Conns |-> NoConn]
    /\ map = [i \in Ids |-> NoEntry]
    /\ peer = [c \in Conns |-> NoPeer]
    /\ socket = [c \in Conns |-> NewSocket]
    /\ task = [c \in Conns |-> NoTask]
    /\ events = [c \in Conns |-> <<>>]
    /\ event_rx = TRUE
    /\ ret = [op |-> "new", arg |-> 0, val |-> TRUE, seq |-> 0]
    /\ ci_channel = [k \in CiIds |-> NoChan]
    /\ handed = [ch \in Chans |-> -1]
    /\ polled = [c \in Conns |-> NoPolls]

\* ---- ConnectionMap: operations --------------------------------------------
\* a handshaken Peer is built and insert_peer runs up to the lock (lines 53-56)
insert_peer_begin(c, uid, kind, addr) ==
    /\ conn[c].drop_tx = "unborn"
    /\ \A d \in Conns : d < c => conn[d].drop_tx # "unborn"
    /\ conn' = [conn EXCEPT ![c] = [uid |-> uid, kind |-> kind, addr |-> addr,
                                        drop_tx |-> "caller", born |-> now]]
    /\ peer' = [peer EXCEPT ![c] = from_handshaken_socket(now)]
    /\ UNCHANGED <<aux, now, ticks, map, socket, task, events, event_rx, ret>>

\* mutant: no check for an entry of the same identity
insert_peer_overwrite(c) ==
    /\ conn[c].drop_tx = "caller"
    /\ LET uid == conn[c].uid IN
       /\ task' = [task EXCEPT ![c].pc = "run"]
       /\ map' = [map EXCEPT ![uid] = [conn |-> c, addr |-> conn[c].addr,
                                       kind |-> conn[c].kind, peer_sink |-> <<>>]]
       /\ conn' = [drop_wrappers(conn, map, map') EXCEPT ![c].drop_tx = "entry"]
       /\ ret' = returned("insert_peer", uid, TRUE)
    /\ UNCHANGED <<aux, now, ticks, peer, socket, events, event_rx>>

\* mutant: the future is spawned before the check
insert_peer_spawn_first(c) ==
    /\ conn[c].drop_tx = "caller"
    /\ task' = [task EXCEPT ![c].pc = "run"]
    /\ LET uid == conn[c].uid IN
       IF contains_key(map, uid)
       THEN /\ conn' = [conn EXCEPT ![c].drop_tx = "dropped"]
            /\ ret' = returned("insert_peer", uid, FALSE)
            /\ UNCHANGED map
       ELSE /\ map' = [map EXCEPT ![uid] = [conn |-> c, addr |-> conn[c].addr,
                                            kind |-> conn[c].kind, peer_sink |-> <<>>]]
            /\ conn' = [conn EXCEPT ![c].drop_tx = "entry"]
            /\ ret' = returned("insert_peer", uid, TRUE)
    /\ UNCHANGED <<aux, now, ticks, peer, socket, events, event_rx>>

\* insert_peer under the lock (lines 58-79)
insert_peer(c) ==
    /\ conn[c].drop_tx = "caller"
    /\ LET uid == conn[c].uid IN
       IF contains_key(map, uid)
       THEN /\ conn' = [conn EXCEPT ![c].drop_tx = "dropped"]
            /\ ret' = returned("insert_peer", uid, FALSE)
            /\ UNCHANGED <<map, task>>
       ELSE /\ task' = [task EXCEPT ![c].pc = "run"]
            /\ map' = [map EXCEPT ![uid] = [conn |-> c, addr |-> conn[c].addr,
                                            kind |-> conn[c].kind, peer_sink |-> <<>>]]
            /\ conn' = [conn EXCEPT ![c].drop_tx = "entry"]
            /\ ret' = returned("insert_peer", uid, TRUE)
    /\ UNCHANGED <<aux, now, ticks, peer, socket, events, event_rx>>

\* the outbound half accepts the item or fails; it is never not-ready
SinkOutcomes == {"Ready", "Err"}

\* start_send of the outbound half kept in the entry: the connection accepts
\* (priority, payload) pairs with ready / not-ready backpressure
compat_start_send(sink, item, outcome) ==
    IF outcome = "Err" THEN [sink |-> sink, res |-> "Err"]
    ELSE IF Len(sink) < MaxSink THEN [sink |-> Append(sink, item), res |-> "Ready"]
    ELSE [sink |-> sink, res |-> "NotReady"]

\* mutant: an item for an absent identity is silently accepted
send_unchecked(uid, msg, priority, outcome) ==
    /\ IF ~contains_key(map, uid)
       THEN /\ ret' = returned("send", <<uid, msg, priority>>, "Ok")
            /\ UNCHANGED map
       ELSE LET r == compat_start_send(map[uid].peer_sink, <<priority, msg>>, outcome) IN
            /\ map' = [map EXCEPT ![uid].peer_sink = r.sink]
            /\ ret' = returned("send", <<uid, msg, priority>>,
                               IF r.res = "Err" THEN "CompatPeerError"
                               ELSE IF r.res = "NotReady" THEN "unreachable"
                               ELSE "Ok")
    /\ UNCHANGED <<aux, now, ticks, conn, peer, socket, task, events, event_rx>>

send(uid, msg, priority, outcome) ==
    /\ IF ~contains_key(map, uid)
       THEN /\ ret' = returned("send", <<uid, msg, priority>>, "PeerNotFound")
            /\ UNCHANGED map
       ELSE LET r == compat_start_send(map[uid].peer_sink, <<priority, msg>>, outcome) IN
            /\ map' = [map EXCEPT ![uid].peer_sink = r.sink]
            /\ ret' = returned("send", <<uid, msg, priority>>,
                               IF r.res = "Err" THEN "CompatPeerError"
                               ELSE IF r.res = "NotReady" THEN "unreachable"
                               ELSE "Ok")
    /\ UNCHANGED <<aux, now, ticks, conn, peer, socket, task, events, event_rx>>

\* Err(CrustError::PeerNotFound) of peer_addr
PeerNotFound == [ok |-> FALSE, addr |-> 0]

peer_addr(uid) ==
    /\ ret' = returned("peer_addr", uid,
                       IF contains_key(map, uid) THEN [ok |-> TRUE, addr |-> map[uid].addr]
                       ELSE PeerNotFound)
    /\ UNCHANGED <<aux, now, ticks, conn, map, peer, socket, task, events, event_rx>>

\* mutant: is_none() for is_some()
remove_inverted(uid) ==
    /\ map' = map_remove(map, uid)
    /\ conn' = drop_wrappers(conn, map, map')
    /\ ret' = returned("remove", uid, ~contains_key(map, uid))
    /\ UNCHANGED <<aux, now, ticks, peer, socket, task, events, event_rx>>

remove(uid) ==
    /\ map' = map_remove(map, uid)
    /\ conn' = drop_wrappers(conn, map, map')
    /\ ret' = returned("remove", uid, contains_key(map, uid))
    /\ UNCHANGED <<aux, now, ticks, peer, socket, task, events, event_rx>>

contains_peer(uid) ==
    /\ ret' = returned("contains_peer", uid, contains_key(map, uid))
    /\ UNCHANGED <<aux, now, ticks, conn, map, peer, socket, task, events, event_rx>>

whitelist_filter(client_ips, node_ips) ==
    /\ map' = [i \in Ids |-> IF contains_key(map, i) /\ whitelisted(map[i], client_ips, node_ips)
                             THEN map[i] ELSE NoEntry]
    /\ conn' = drop_wrappers(conn, map, map')
    /\ ret' = returned("whitelist_filter", <<client_ips, node_ips>>, TRUE)
    /\ UNCHANGED <<aux, now, ticks, peer, socket, task, events, event_rx>>

clear ==
    /\ map' = [i \in Ids |-> NoEntry]
    /\ conn' = drop_wrappers(conn, map, map')
    /\ ret' = returned("clear", 0, TRUE)
    /\ UNCHANGED <<aux, now, ticks, peer, socket, task, events, event_rx>>

\* a channel made by the handshake layer is stored under conn_id; a channel
\* that was stored there before is dropped
insert_ci_channel(conn_id, chann) ==
    /\ handed[chann] = -1
    /\ \A ch \in Chans : ch < chann => handed[ch] # -1
    /\ ci_channel' = [ci_channel EXCEPT ![conn_id] = chann]
    /\ handed' = [handed EXCEPT ![chann] = 0]
    /\ ret' = returned("insert_ci_channel", conn_id, TRUE)
    /\ UNCHANGED <<now, ticks, conn, map, peer, socket, task, events, event_rx, polled>>

\* mutant: a lookup that leaves the channel in the table
get_ci_channel_keep(conn_id) ==
    /\ handed' = [ch \in Chans |-> IF ch = ci_channel[conn_id] THEN handed[ch] + 1 ELSE handed[ch]]
    /\ ret' = returned("get_ci_channel", conn_id, ci_channel[conn_id])
    /\ UNCHANGED <<now, ticks, conn, map, peer, socket, task, events, event_rx, polled, ci_channel>>

get_ci_channel(conn_id) ==
    /\ ci_channel' = [ci_channel EXCEPT ![conn_id] = NoChan]
    /\ handed' = [ch \in Chans |-> IF ch = ci_channel[conn_id] THEN handed[ch] + 1 ELSE handed[ch]]
    /\ ret' = returned("get_ci_channel", conn_id, ci_channel[conn_id])
    /\ UNCHANGED <<now, ticks, conn, map, peer, socket, task, events, event_rx, polled>>

\* ---- handle_peer_rx --------------------------------------------------------
\* mutant: the kind of the tests for the kind of the connection
for_each_client(c, msg) == event_tx_send(c, NewMessage(conn[c].uid, "Client", msg))

\* the closure given to for_each (lines 191-194)
for_each(c, msg) == event_tx_send(c, NewMessage(conn[c].uid, conn[c].kind, msg))

\* mutant: the inactivity closure only reports, and the stream is polled on
handle_peer_rx_goes_on(c) ==
    /\ task[c].pc = "run"
    /\ IF conn[c].drop_tx = "dropped"
       THEN /\ task' = [task EXCEPT ![c] = [pc |-> "finally", cause |-> "drop"]]
            /\ UNCHANGED <<conn, map, peer, socket, events>>
       ELSE LET r == poll(peer[c], socket[c], now)
                uid == conn[c].uid
            IN  /\ peer' = [peer EXCEPT ![c] = r.peer]
                /\ socket' = [socket EXCEPT ![c] = r.socket]
                /\ CASE r.res.tag = "Item" ->
                          /\ events' = for_each(c, r.res.data)
                          /\ UNCHANGED <<conn, map, task>>
                     [] r.res.tag = "End" ->
                          /\ task' = [task EXCEPT ![c] = [pc |-> "finally", cause |-> "eof"]]
                          /\ UNCHANGED <<conn, map, events>>
                     [] r.res.tag = "Err" /\ r.res.err = "InactivityTimeout" ->
                          /\ events' = event_tx_send(c, LostPeer(uid))
                          /\ UNCHANGED <<conn, map, task>>
                     [] r.res.tag = "Err" /\ r.res.err # "InactivityTimeout" ->
                          /\ task' = [task EXCEPT ![c] = [pc |-> "finally", cause |-> "error"]]
                          /\ UNCHANGED <<conn, map, events>>
                     [] r.res.tag = "NotReady" ->
                          UNCHANGED <<conn, map, task, events>>
    /\ UNCHANGED <<aux, now, ticks, event_rx, ret>>

\* one poll of the future: until(drop_rx), then the stream, then map_err / for_each
handle_peer_rx(c) ==
    /\ task[c].pc = "run"
    /\ IF conn[c].drop_tx = "dropped"
       THEN /\ task' = [task EXCEPT ![c] = [pc |-> "finally", cause |-> "drop"]]
            /\ UNCHANGED <<conn, map, peer, socket, events>>
       ELSE LET r == poll(peer[c], socket[c], now)
                uid == conn[c].uid
            IN  /\ peer' = [peer EXCEPT ![c] = r.peer]
                /\ socket' = [socket EXCEPT ![c] = r.socket]
                /\ CASE r.res.tag = "Item" ->
                          /\ events' = for_each(c, r.res.data)
                          /\ UNCHANGED <<conn, map, task>>
                     [] r.res.tag = "End" ->
                          /\ task' = [task EXCEPT ![c] = [pc |-> "finally", cause |-> "eof"]]
                          /\ UNCHANGED <<conn, map, events>>
                     [] r.res.tag = "Err" /\ r.res.err = "InactivityTimeout" ->
                          /\ map' = map_remove(map, uid)
                          /\ conn' = drop_wrappers(conn, map, map')
                          /\ events' = event_tx_send(c, LostPeer(uid))
                          /\ task' = [task EXCEPT ![c] = [pc |-> "finally", cause |-> "timeout"]]
                     [] r.res.tag = "Err" /\ r.res.err # "InactivityTimeout" ->
                          /\ task' = [task EXCEPT ![c] = [pc |-> "finally", cause |-> "error"]]
                          /\ UNCHANGED <<conn, map, events>>
                     [] r.res.tag = "NotReady" ->
                          UNCHANGED <<conn, map, task, events>>
    /\ UNCHANGED <<aux, now, ticks, event_rx, ret>>

\* mutant: the finally closure sends LostPeer and leaves the entry
handle_peer_rx_finally_keep(c) ==
    /\ task[c].pc = "finally"
    /\ events' = event_tx_send(c, LostPeer(conn[c].uid))
    /\ task' = [task EXCEPT ![c].pc = "done"]
    /\ UNCHANGED <<aux, now, ticks, conn, map, peer, socket, event_rx, ret>>

\* the closure given to finally (lines 195-198)
handle_peer_rx_finally(c) ==
    /\ task[c].pc = "finally"
    /\ map' = map_remove(map, conn[c].uid)
    /\ conn' = drop_wrappers(conn, map, map')
    /\ events' = event_tx_send(c, LostPeer(conn[c].uid))
    /\ task' = [task EXCEPT ![c].pc = "done"]
    /\ UNCHANGED <<aux, now, ticks, peer, socket, event_rx, ret>>

\* ---- a consumer that holds a Peer itself -----------------------------------
\* the frames in a socket's store
frames(rx) == Cardinality({k \in 1 .. Len(rx) : rx[k].tag \in {"Data", "Heartbeat"}})

stream_poll(c) ==
    /\ conn[c].drop_tx = "caller"
    /\ LET r == poll(peer[c], socket[c], now)
           k == frames(socket[c].rx) - frames(r.socket.rx)
       IN  /\ peer' = [peer EXCEPT ![c] = r.peer]
           /\ socket' = [socket EXCEPT ![c] = r.socket]
           /\ polled' = [polled EXCEPT ![c] =
                 [items |-> IF r.res.tag = "Item" THEN Append(@.items, r.res.data) ELSE @.items,
                  timed_out |-> @.timed_out \/ (r.res.tag = "Err" /\ r.res.err = "InactivityTimeout"),
                  ended |-> @.ended \/ r.res.tag = "End",
                  last_frame |-> IF k > 0 THEN now ELSE @.last_frame]]
           /\ ret' = returned("poll", c, r.res)
    /\ UNCHANGED <<now, ticks, conn, map, task, events, event_rx, ci_channel, handed>>

SinkFailures == {"none"} \cup SocketErrors

sink_start_send(c, priority, data, fail) ==
    /\ conn[c].drop_tx = "caller"
    /\ LET r == start_send(peer[c], socket[c].tx, priority, data, fail, now)
       IN  /\ peer' = [peer EXCEPT ![c] = r.peer]
           /\ socket' = [socket EXCEPT ![c].tx = r.tx]
           /\ ret' = returned("start_send", <<c, priority, data, fail>>, r.res)
    /\ UNCHANGED <<aux, now, ticks, conn, map, task, events, event_rx>>

sink_poll_complete(c, fail) ==
    /\ conn[c].drop_tx = "caller"
    /\ ret' = returned("poll_complete", <<c, fail>>, poll_complete(socket[c].tx, fail))
    /\ UNCHANGED <<aux, now, ticks, conn, map, peer, socket, task, events, event_rx>>

\* ---- environment ------------------------------------------------------------
\* the stream of c is still held by a caller or by a running future
stream_alive(c) == conn[c].drop_tx = "caller" \/ task[c].pc = "run"

rx_open(c) ==
    IF socket[c].rx = <<>> THEN TRUE
    ELSE socket[c].rx[Len(socket[c].rx)].tag \in {"Data", "Heartbeat"}

\* the remote peer sends a frame
remote_frame(c, msg) ==
    /\ stream_alive(c) /\ rx_open(c)
    /\ Len(socket[c].wire) < MaxFrames
    /\ socket' = [socket EXCEPT ![c].rx = Append(@, msg), ![c].wire = Append(@, msg)]
    /\ UNCHANGED <<aux, now, ticks, conn, map, peer, task, events, event_rx, ret>>

\* the remote peer closes the connection
remote_close(c) ==
    /\ stream_alive(c) /\ rx_open(c)
    /\ socket' = [socket EXCEPT ![c].rx = Append(@, Eof)]
    /\ UNCHANGED <<aux, now, ticks, conn, map, peer, task, events, event_rx, ret>>

\* the transport fails
socket_error(c, e) ==
    /\ stream_alive(c) /\ rx_open(c)
    /\ socket' = [socket EXCEPT ![c].rx = Append(@, SockErr(e))]
    /\ UNCHANGED <<aux, now, ticks, conn, map, peer, task, events, event_rx, ret>>

\* the socket puts its queued frames on the wire
socket_flush(c) ==
    /\ socket[c].tx # <<>>
    /\ socket' = [socket EXCEPT ![c].tx = <<>>]
    /\ UNCHANGED <<aux, now, ticks, conn, map, peer, task, events, event_rx, ret>>

\* the consumer of events goes away
drop_event_rx ==
    /\ event_rx
    /\ event_rx' = FALSE
    /\ UNCHANGED <<aux, now, ticks, conn, map, peer, socket, task, events, ret>>

tick(d) ==
    /\ ticks < MaxTicks
    /\ now' = now + d
    /\ ticks' = ticks + 1
    /\ UNCHANGED <<aux, conn, map, peer, socket, task, events, event_rx, ret>>

\* the calls a user of ConnectionMap makes
Calls ==
    \/ \E c \in Conns, uid \in Ids, kind \in Kinds : insert_peer_begin(c, uid, kind, 1)
    \/ \E c \in Conns : insert_peer(c)
    \/ \E uid \in Ids, msg \in Payloads, priority \in Priorities, outcome \in SinkOutcomes :
          send(uid, msg, priority, outcome)
    \/ \E uid \in Ids : peer_addr(uid)
    \/ \E uid \in Ids : remove(uid)
    \/ \E uid \in Ids : contains_peer(uid)
    \/ \E client_ips \in SUBSET Ips, node_ips \in SUBSET Ips : whitelist_filter(client_ips, node_ips)
    \/ clear

\* the steps of the spawned futures
Futures ==
    \/ \E c \in Conns : handle_peer_rx(c)
    \/ \E c \in Conns : handle_peer_rx_finally(c)

\* the registry and its futures over connections that may close
Next ==
    \/ Calls
    \/ Futures
    \/ \E c \in Conns : remote_close(c)

Spec == Init /\ [][Next]_vars

\* connections of both kinds at different addresses; the calls that add,
\* remove and look up entries
NextFilter ==
    \/ \E c \in Conns, uid \in Ids, kind \in Kinds, addr \in Ips : insert_peer_begin(c, uid, kind, addr)
    \/ \E c \in Conns : insert_peer(c)
    \/ \E uid \in Ids : remove(uid)
    \/ \E uid \in Ids : contains_peer(uid)
    \/ \E client_ips \in SUBSET Ips, node_ips \in SUBSET Ips : whitelist_filter(client_ips, node_ips)
    \/ clear
    \/ Futures

SpecFilter == Init /\ [][NextFilter]_vars

\* the executor polls a future that can make progress
SpecFair ==
    /\ SpecFilter
    /\ \A c \in Conns : WF_vars(handle_peer_rx(c)) /\ WF_vars(handle_peer_rx_finally(c))

\* the ci-channel table next to the identity map
NextCi ==
    \/ \E conn_id \in CiIds, chann \in Chans : insert_ci_channel(conn_id, chann)
    \/ \E conn_id \in CiIds : get_ci_channel(conn_id)
    \/ \E c \in Conns, uid \in Ids : insert_peer_begin(c, uid, "Node", 1)
    \/ \E c \in Conns : insert_peer(c)
    \/ \E uid \in Ids : remove(uid)

SpecCi == Init /\ [][NextCi]_vars

\* a Peer built at time 0 and held by its consumer
InitStream ==
    /\ now = 0
    /\ ticks = 0
    /\ conn = [c \in Conns |-> IF c = 1 THEN [uid |-> 1, kind |-> "Node", addr |-> 1,
                                                drop_tx |-> "caller", born |-> 0]
                               ELSE NoConn]
    /\ map = [i \in Ids |-> NoEntry]
    /\ peer = [c \in Conns |-> from_handshaken_socket(0)]
    /\ socket = [c \in Conns |-> NewSocket]
    /\ task = [c \in Conns |-> NoTask]
    /\ events = [c \in Conns |-> <<>>]
    /\ event_rx = TRUE
    /\ ret = [op |-> "new", arg |-> 0, val |-> TRUE, seq |-> 0]
    /\ ci_channel = [k \in CiIds |-> NoChan]
    /\ handed = [ch \in Chans |-> -1]
    /\ polled = [c \in Conns |-> NoPolls]

\* the clock of the Peer specification also stops between two heartbeats
StreamTicks == {HEARTBEAT_PERIOD_MS \div 2, HEARTBEAT_PERIOD_MS, INACTIVITY_TIMEOUT_MS}

\* the Stream side of the Peer: frames come in and are polled for
NextStream ==
    \/ stream_poll(1)
    \/ \E msg \in PeerMessage : remote_frame(1, msg)
    \/ remote_close(1)
    \/ \E e \in SocketErrors : socket_error(1, e)
    \/ socket_flush(1)
    \/ \E d \in StreamTicks : tick(d)

SpecStream == InitStream /\ [][NextStream]_vars

\* the Sink side of the Peer and its heartbeats: payloads go out between polls
NextSink ==
    \/ stream_poll(1)
    \/ \E priority \in Priorities, data \in Payloads, fail \in SinkFailures :
          sink_start_send(1, priority, data, fail)
    \/ \E fail \in SinkFailures : sink_poll_complete(1, fail)
    \/ socket_flush(1)
    \/ \E d \in StreamTicks : tick(d)

SpecSink == InitStream /\ [][NextSink]_vars

\* one connection from handshake to teardown, with frames, failures and time
Live == 1 .. MaxLive

NextPeer ==
    \/ \E c \in Live, kind \in Kinds : insert_peer_begin(c, 1, kind, 1)
    \/ \E c \in Live : insert_peer(c)
    \/ remove(1)
    \/ \E c \in Live : handle_peer_rx(c)
    \/ \E c \in Live : handle_peer_rx_finally(c)
    \/ \E c \in Live, msg \in PeerMessage : remote_frame(c, msg)
    \/ \E c \in Live : remote_close(c)
    \/ \E c \in Live, e \in SocketErrors : socket_error(c, e)
    \/ \E c \in Live : socket_flush(c)
    \/ drop_event_rx
    \/ \E d \in TickSteps : tick(d)

SpecPeer == Init /\ [][NextPeer]_vars

TypeOK ==
    /\ now \in Nat
    /\ \A c \in Conns : conn[c].drop_tx \in {"unborn", "caller", "entry", "dropped"}
    /\ \A c \in Conns : task[c].pc \in {"none", "run", "finally", "done"}

\* ---- properties -------------------------------------------------------------
\* the positions of events[c] that hold an event of kind ev
sent(c, ev) == {k \in 1 .. Len(events[c]) : events[c][k].e.ev = ev}

\* C1: a connection instance whose future has terminated has passed exactly
\* one LostPeer to the event sink, whatever made the future terminate.
C1_ExactlyOneLostPeer ==
    \A c \in Conns : task[c].pc = "done" => Cardinality(sent(c, "LostPeer")) = 1

\* a ConnectionMap call of this name returns in this step
called(op) == ret'.seq # ret.seq /\ ret'.op = op
\* the caller of insert_peer for instance c gets its answer in this step
answered(c) == conn[c].drop_tx = "caller" /\ conn'[c].drop_tx # "caller"
\* the future of instance c calls remove(uid) in this step (lines 185 and 196)
future_removes(c) ==
    \/ task[c].pc = "run" /\ task'[c] = [pc |-> "finally", cause |-> "timeout"]
    \/ task[c].pc = "finally" /\ task'[c].pc = "done"
\* an allow-set pair lets this entry stay
allowed(pw, sets) ==
    \/ pw.kind = "Node" /\ pw.addr \in sets[2]
    \/ pw.kind = "Client" /\ pw.addr \in sets[1]

\* C2: an insert returns true exactly when its identity was absent at the
\* moment it took the lock, so of several racing inserts for one absent
\* identity one wins; every identity has at most one entry, owned by one instance.
C2_OneInsertWins ==
    /\ [](\A i \in Ids :
            Cardinality({c \in Conns : conn[c].uid = i /\ conn[c].drop_tx = "entry"})
                = IF contains_key(map, i) THEN 1 ELSE 0)
    /\ [][\A c \in Conns : answered(c) =>
            /\ called("insert_peer") /\ ret'.arg = conn[c].uid
            /\ ret'.val = ~contains_key(map, conn[c].uid)
            /\ ret'.val => map'[conn[c].uid].conn = c]_vars

\* two inserts for one identity overlapped: the one that began first lost
C2_Witness ==
    \E c1, c2 \in Conns :
        /\ c1 < c2 /\ conn[c1].uid = conn[c2].uid
        /\ conn[c1].drop_tx = "dropped" /\ task[c1].pc = "none"
        /\ conn[c2].drop_tx = "entry"
        /\ \A d \in Conns \ {c1, c2} : conn[d].uid # conn[c1].uid

\* C3: an insert on a present identity returns false and changes nothing: the
\* map and the entry in it, every other instance's drop-notifier, the futures
\* and the events are as before.
C3_RejectedInsert ==
    [][\A c \in Conns : (answered(c) /\ contains_key(map, conn[c].uid)) =>
            /\ called("insert_peer") /\ ret'.val = FALSE
            /\ map' = map /\ task' = task /\ events' = events
            /\ \A d \in Conns \ {c} : conn'[d] = conn[d]]_vars

C3_Witness ==
    /\ ret.op = "insert_peer" /\ ret.val = FALSE
    /\ contains_key(map, ret.arg) /\ task[map[ret.arg].conn].pc = "run"
    /\ \E c \in Conns : conn[c].uid = ret.arg /\ conn[c].drop_tx = "dropped" /\ task[c].pc = "none"

\* C4: an identity is in the map after a step iff the step is a successful
\* insert of it, or it was in the map and the step is none of remove(i) (by a
\* caller or by a future), whitelist_filter excluding i, and clear; contains
\* answers whether the identity is in the map.
C4_ContainsTracksHistory ==
    [][\A i \in Ids :
        LET was == contains_key(map, i)
            is == contains_key(map', i)
            inserted == called("insert_peer") /\ ret'.arg = i /\ ret'.val
            removed == called("remove") /\ ret'.arg = i
            by_future == \E c \in Conns : conn[c].uid = i /\ future_removes(c)
            excluded == called("whitelist_filter") /\ was /\ ~allowed(map[i], ret'.arg)
            cleared == called("clear")
        IN  /\ is <=> (inserted \/ (was /\ ~(removed \/ by_future \/ excluded \/ cleared)))
            /\ (called("contains_peer") /\ ret'.arg = i) => (ret'.val = was /\ is = was)]_vars

\* contains answers false for an identity that was inserted and then lost its entry
C4_Witness ==
    /\ ret.op = "contains_peer" /\ ret.val = FALSE
    /\ \E c \in Conns : conn[c].uid = ret.arg /\ task[c].pc # "none" /\ conn[c].drop_tx = "dropped"

\* C5: remove returns whether the identity had an entry; on an absent identity
\* it changes nothing; a remove(i) that directly follows a remove(i) that
\* returned true returns false.
C5_Remove ==
    [][called("remove") =>
        LET i == ret'.arg IN
        /\ ret'.val = contains_key(map, i)
        /\ ~contains_key(map, i) => (map' = map /\ conn' = conn /\ task' = task /\ events' = events)
        /\ (ret.op = "remove" /\ ret.arg = i /\ ret.val = TRUE) => ret'.val = FALSE]_vars

\* remove answered false for an identity whose entry an earlier remove took
\* away: the future of that entry has not yet run again
C5_Witness ==
    /\ ret.op = "remove" /\ ret.val = FALSE
    /\ \E c \in Conns : conn[c].uid = ret.arg /\ conn[c].drop_tx = "dropped" /\ task[c].pc = "run"

\* C6: an instance whose entry is no longer in the map has had its
\* drop-notifier fired; from then on its future, if still running, reaches
\* the end of its finalization without any help from its stream; clear
\* leaves the map empty.
C6_DropStopsFuture ==
    /\ [](\A c \in Conns : (task[c].pc # "none" /\ c \notin wrapped(map)) => conn[c].drop_tx = "dropped")
    /\ \A c \in Conns : (conn[c].drop_tx = "dropped" /\ task[c].pc = "run") ~> (task[c].pc = "done")
    /\ [][called("clear") => \A i \in Ids : ~contains_key(map', i)]_vars

\* after a clear of two entries both futures ended because of the notifier
C6_Witness ==
    /\ ret.op = "clear"
    /\ \A c \in Conns : task[c] = [pc |-> "done", cause |-> "drop"]

\* C7: when the future of an inserted connection that never got a frame is
\* polled INACTIVITY_TIMEOUT_MS or more after the Peer was built, the stream
\* fails with InactivityTimeout; after that step the identity is not in the
\* map and LostPeer(identity) has been sent.
C7_InactivityTimeout ==
    [][\A c \in Conns :
        (/\ handle_peer_rx(c)
         /\ conn[c].drop_tx = "entry"
         /\ socket[c].wire = <<>> /\ socket[c].rx = <<>>
         /\ now - conn[c].born >= INACTIVITY_TIMEOUT_MS)
        => /\ task'[c] = [pc |-> "finally", cause |-> "timeout"]
           /\ ~contains_key(map', conn[c].uid)
           /\ \E k \in 1 .. Len(events'[c]) : events'[c][k].e = LostPeer(conn[c].uid)]_vars

C7_Witness ==
    \E c \in Conns :
        /\ task[c].cause = "timeout" /\ socket[c].wire = <<>>
        /\ now - conn[c].born >= INACTIVITY_TIMEOUT_MS
        /\ ~contains_key(map, conn[c].uid)
        /\ sent(c, "LostPeer") # {}

\* the frames the Peer of c has taken from its socket
taken(c) ==
    LET rx == socket[c].rx
        left == Cardinality({k \in 1 .. Len(rx) : rx[k].tag \in {"Data", "Heartbeat"}})
    IN  SubSeq(socket[c].wire, 1, Len(socket[c].wire) - left)
is_data(f) == f.tag = "Data"
is_new_message(x) == x.e.ev = "NewMessage"

\* C8: the NewMessage events of an instance are, in order, one per Data frame
\* taken from its socket, each with the instance's identity and kind and the
\* frame's payload; this is so whether or not the sends succeeded.
C8_NewMessagePerPayload ==
    \A c \in Conns :
        LET got == SelectSeq(taken(c), is_data)
            news == SelectSeq(events[c], is_new_message)
        IN  /\ Len(news) = Len(got)
            /\ \A k \in 1 .. Len(news) :
                  news[k].e = NewMessage(conn[c].uid, conn[c].kind, got[k].data)

\* two different payloads were relayed in order, the second after the
\* receiver of events had gone
C8_Witness ==
    \E c \in Conns :
        LET news == SelectSeq(events[c], is_new_message)
        IN  /\ Len(news) = 2 /\ news[1].e.data # news[2].e.data
            /\ news[1].ok /\ ~news[2].ok

C10_PeerNotFound ==
    [][/\ called("send") =>
            LET i == ret'.arg[1] IN
            /\ ret'.val = "PeerNotFound" <=> ~contains_key(map, i)
            /\ ret'.val # "Ok" => map' = map
            /\ ret'.val = "Ok" =>
                  /\ map' = [map EXCEPT ![i].peer_sink = Append(@, <<ret'.arg[3], ret'.arg[2]>>)]
            /\ conn' = conn /\ task' = task /\ events' = events
       /\ called("peer_addr") =>
            /\ ret'.val = PeerNotFound <=> ~contains_key(map, ret'.arg)
            /\ contains_key(map, ret'.arg) => ret'.val = [ok |-> TRUE, addr |-> map[ret'.arg].addr]
            /\ map' = map /\ conn' = conn]_vars

\* send answers PeerNotFound for an identity whose connection was torn down
C10_Witness ==
    /\ ret.op = "send" /\ ret.val = "PeerNotFound"
    /\ \E c \in Conns : conn[c].uid = ret.arg[1] /\ task[c].pc = "done"

\* C11: a channel stored by insert_ci_channel is returned by at most one
\* get_ci_channel, which takes it out of the table in the same step: a
\* get_ci_channel(id) right after a get_ci_channel(id) returns None; the
\* ci-channel calls leave the identity map as it is.
C11_CiChannelOnce ==
    /\ [](\A ch \in Chans : handed[ch] <= 1
                            /\ (handed[ch] = 1 => \A k \in CiIds : ci_channel[k] # ch))
    /\ [][/\ called("get_ci_channel") =>
              /\ ret'.val = ci_channel[ret'.arg] /\ ci_channel'[ret'.arg] = NoChan
              /\ (ret.op = "get_ci_channel" /\ ret.arg = ret'.arg) => ret'.val = NoChan
              /\ map' = map /\ conn' = conn /\ task' = task
          /\ called("insert_ci_channel") => (map' = map /\ conn' = conn /\ task' = task)]_vars

\* a channel was handed out and the next retrieval under its id got None,
\* while the identity map holds an entry
C11_Witness ==
    /\ ret.op = "get_ci_channel" /\ ret.val = NoChan
    /\ \E ch \in Chans : handed[ch] = 1
    /\ \E i \in Ids : contains_key(map, i)

\* the result of a poll is the InactivityTimeout failure
is_timeout(res) == res.tag = "Err" /\ res.err = "InactivityTimeout"
\* the frames that the poll of this step took from the socket of c
took(c) == frames(socket[c].rx) - frames(socket'[c].rx)

\* C12: a poll that takes frames from the socket sets the inactivity deadline
\* to now + INACTIVITY_TIMEOUT_MS whether the frames are Heartbeat or Data; it
\* yields an item only if the last frame it took is Data, and the item is that
\* frame's payload; a poll that takes only Heartbeat frames yields nothing.
C12_HeartbeatTransparent ==
    [][called("poll") =>
        LET c == ret'.arg
            rx == socket[c].rx
            k == took(c)
        IN  /\ k > 0 => peer'[c].recv_heartbeat_timeout = now + INACTIVITY_TIMEOUT_MS
            /\ k = 0 => peer'[c].recv_heartbeat_timeout = peer[c].recv_heartbeat_timeout
            /\ \A j \in 1 .. (k - 1) : rx[j].tag = "Heartbeat"
            /\ ret'.val.tag = "Item" <=> (k > 0 /\ rx[k].tag = "Data")
            /\ ret'.val.tag = "Item" => ret'.val.data = rx[k].data]_vars

\* a poll took a Heartbeat, moved the deadline and yielded nothing
C12_Witness ==
    /\ ret.op = "poll" /\ ret.val.tag = "NotReady"
    /\ socket[1].wire = <<Heartbeat>> /\ socket[1].rx = <<>>
    /\ now > 0 /\ peer[1].recv_heartbeat_timeout = now + INACTIVITY_TIMEOUT_MS
    /\ polled[1].items = <<>>

\* C13: once a poll has failed with InactivityTimeout no later poll yields an item.
C13_TimeoutTerminal ==
    [][\A c \in Conns : polled[c].timed_out => polled'[c].items = polled[c].items]_vars

\* C14: a poll fails with InactivityTimeout only when the socket has nothing in
\* store and INACTIVITY_TIMEOUT_MS or more have passed since the last poll
\* that took a frame (since the Peer was built, if none did); a poll that finds
\* a frame in the socket does not fail so; a poll that takes a frame sets the
\* deadline to now + INACTIVITY_TIMEOUT_MS.
C14_TimeoutOnlyWhenIdle ==
    [][called("poll") =>
        LET c == ret'.arg
            since == IF polled[c].last_frame < 0 THEN conn[c].born ELSE polled[c].last_frame
        IN  /\ is_timeout(ret'.val) =>
                  (socket[c].rx = <<>> /\ now - since >= INACTIVITY_TIMEOUT_MS)
            /\ frames(socket[c].rx) > 0 => ~is_timeout(ret'.val)
            /\ took(c) > 0 => peer'[c].recv_heartbeat_timeout = now + INACTIVITY_TIMEOUT_MS]_vars

\* a poll failed with InactivityTimeout a full period after a frame was taken
C14_Witness ==
    /\ ret.op = "poll" /\ is_timeout(ret.val)
    /\ polled[1].last_frame > 0 /\ now - polled[1].last_frame >= INACTIVITY_TIMEOUT_MS

\* what C15 says of every poll but its last clause
heartbeat_drain(c) ==
    LET p == peer[c]
        q == peer'[c]
        due == elapsed(p.send_heartbeat_timeout, now)
              /\ now - p.last_send_time >= HEARTBEAT_PERIOD_MS
        attempted == q.last_send_time # p.last_send_time
    IN  /\ Len(socket'[c].tx) <= Len(socket[c].tx) + 1
        /\ attempted <=> due
        /\ attempted => q.last_send_time = now
        /\ (attempted /\ Len(socket[c].tx) < SockCap) =>
              socket'[c].tx = Append(socket[c].tx, <<0, Heartbeat>>)
        /\ ~attempted => socket'[c].tx = socket[c].tx

\* C15 as claimed: in every poll the drain loop enqueues at most one Heartbeat,
\* attempts one iff the timer has elapsed and HEARTBEAT_PERIOD_MS have passed
\* since last_send_time, sets last_send_time to now on an attempt, and leaves
\* the timer at last_send_time + HEARTBEAT_PERIOD_MS.
C15_DrainAsClaimed ==
    [][called("poll") =>
        /\ heartbeat_drain(ret'.arg)
        /\ peer'[ret'.arg].send_heartbeat_timeout
              = peer'[ret'.arg].last_send_time + HEARTBEAT_PERIOD_MS]_vars

\* C15 amended: as claimed, but the timer is at last_send_time +
\* HEARTBEAT_PERIOD_MS after a poll that found it elapsed; a poll that finds
\* it not elapsed leaves it where it was, never later than that.
C15_Drain ==
    [][called("poll") =>
        LET c == ret'.arg
            p == peer[c]
            q == peer'[c]
        IN  /\ heartbeat_drain(c)
            /\ elapsed(p.send_heartbeat_timeout, now) =>
                  q.send_heartbeat_timeout = q.last_send_time + HEARTBEAT_PERIOD_MS
            /\ ~elapsed(p.send_heartbeat_timeout, now) =>
                  q.send_heartbeat_timeout = p.send_heartbeat_timeout
            /\ q.send_heartbeat_timeout <= q.last_send_time + HEARTBEAT_PERIOD_MS]_vars

\* a poll attempted a Heartbeat that the full socket did not accept
C15_Witness ==
    /\ ret.op = "poll" /\ now >= HEARTBEAT_PERIOD_MS
    /\ peer[1].last_send_time = now
    /\ peer[1].send_heartbeat_timeout = now + HEARTBEAT_PERIOD_MS
    /\ Len(socket[1].tx) = 1 /\ socket[1].tx[1][2].tag = "Data"

\* C16: start_send answers Ready after the socket took (priority, Data(payload))
\* and then last_send_time is now; it answers NotReady with the caller's
\* (priority, payload) or fails with the PeerError variant of the socket's
\* failure, and then last_send_time and the socket are as before.
C16_StartSend ==
    [][called("start_send") =>
        LET c == ret'.arg[1]
            priority == ret'.arg[2]
            data == ret'.arg[3]
            fail == ret'.arg[4]
            res == ret'.val
        IN  /\ res.tag = "Err" <=> fail # "none"
            /\ res.tag = "Ready" =>
                  /\ socket'[c].tx = Append(socket[c].tx, <<priority, [tag |-> "Data", data |-> data]>>)
                  /\ peer'[c].last_send_time = now
            /\ res.tag = "NotReady" =>
                  /\ res.item = <<priority, data>>
                  /\ peer'[c] = peer[c] /\ socket'[c] = socket[c]
            /\ res.tag = "Err" =>
                  /\ fail = "SocketError::Io" => res.err = "Io"
                  /\ fail = "SocketError::Destroyed" => res.err = "Destroyed"
                  /\ fail = "SocketError::Deserialisation" => res.err = "Deserialisation"
                  /\ peer'[c] = peer[c] /\ socket'[c] = socket[c]
            /\ peer'[c].send_heartbeat_timeout = peer[c].send_heartbeat_timeout
            /\ peer'[c].recv_heartbeat_timeout = peer[c].recv_heartbeat_timeout]_vars

\* a payload was handed back by a socket that was full, after an earlier one
\* had been accepted at a later time than the Peer was built
C16_Witness ==
    /\ ret.op = "start_send" /\ ret.val.tag = "NotReady"
    /\ peer[1].last_send_time > 0 /\ now > peer[1].last_send_time

\* C17: the items yielded so far are, in order, the payloads of the Data
\* frames taken from the socket, one item per poll at most; end-of-stream is
\* yielded only when every Data frame the remote peer sent has been yielded.
C17_StreamRefinesSocket ==
    \A c \in Conns :
        LET got == SelectSeq(taken(c), is_data)
            all == SelectSeq(socket[c].wire, is_data)
        IN  /\ Len(polled[c].items) = Len(got)
            /\ \A k \in 1 .. Len(got) : polled[c].items[k] = got[k].data
            /\ polled[c].ended => (Len(got) = Len(all) /\ frames(socket[c].rx) = 0)

\* two different payloads were yielded in order and then end-of-stream
C17_Witness ==
    /\ Len(polled[1].items) = 2 /\ polled[1].items[1] # polled[1].items[2]
    /\ polled[1].ended

\* C18: no send comes to the unreachable!() arm: the outbound half of an
\* entry never answers NotReady.
C18_SendNeverNotReady == ~(ret.op = "send" /\ ret.val = "unreachable")

\* C19: a step in which the future of connection c removes an entry leaves
\* every entry of another connection, and that connection's DropNotify, alone.
C19_RemovesOwnEntryOnly ==
    [][\A c \in Conns : future_removes(c) =>
          \A i \in Ids : (contains_key(map, i) /\ map[i].conn # c) =>
              (map'[i] = map[i] /\ conn'[map[i].conn].drop_tx = conn[map[i].conn].drop_tx)]_vars

\* C20: the step in which the future of a connection instance passes
\* LostPeer(uid) to the event sink is a step in which it has called
\* remove(uid), and from then on the instance's entry is not in the map.
C20_RemoveBeforeLostPeer ==
    /\ [](\A c \in Conns : sent(c, "LostPeer") # {} =>
             (c \notin wrapped(map) /\ conn[c].drop_tx = "dropped"))
    /\ [][\A c \in Conns :
             (/\ Len(events'[c]) > Len(events[c])
              /\ events'[c][Len(events'[c])].e.ev = "LostPeer")
             => /\ future_removes(c)
                /\ events'[c][Len(events'[c])].e = LostPeer(conn[c].uid)
                /\ c \notin wrapped(map')]_vars

\* the socket ended while the entry was in the map; the finally closure took
\* the entry out and sent the one LostPeer
C20_Witness ==
    \E c \in Conns :
        /\ task[c] = [pc |-> "done", cause |-> "eof"]
        /\ Cardinality(sent(c, "LostPeer")) = 1
        /\ c \notin wrapped(map) /\ conn[c].drop_tx = "dropped"

\* C21: in the events of one connection instance nothing but LostPeer comes
\* after a LostPeer, and a step of its future that sends NewMessage is taken
\* before any LostPeer and while the DropNotice has not fired.
C21_NoMessageAfterLostPeer ==
    /\ [](\A c \in Conns : \A j \in 1 .. Len(events[c]) : \A k \in j .. Len(events[c]) :
             events[c][j].e.ev = "LostPeer" => events[c][k].e.ev = "LostPeer")
    /\ [][\A c \in Conns :
             (/\ Len(events'[c]) > Len(events[c])
              /\ events'[c][Len(events'[c])].e.ev = "NewMessage")
             => (sent(c, "LostPeer") = {} /\ conn[c].drop_tx # "dropped")]_vars

\* the DropNotice fired while a Data frame was in the socket: the future ended
\* with its NewMessage before its LostPeer and the frame still in the socket
C21_Witness ==
    \E c \in Conns :
        /\ task[c] = [pc |-> "done", cause |-> "drop"]
        /\ \E k \in 1 .. Len(socket[c].rx) : socket[c].rx[k].tag = "Data"
        /\ Len(events[c]) = 2
        /\ events[c][1].e.ev = "NewMessage" /\ events[c][2].e.ev = "LostPeer"

====
